---- MODULE Spec2Model ----
(***************************************************************************)
(* A model of apexpro.http_private.HttpPrivate: the request signer (sign,  *)
(* _private_request, _get, _post), onboarding (register_user), stark key   *)
(* derivation (derive_stark_key) and the user/account endpoint methods.    *)
(*                                                                         *)
(* Representation of Python values:                                        *)
(*   str    a sequence of TLA+ strings; dictionary keys, HTTP methods,     *)
(*          wallet signatures and hex numerals are spelled one character   *)
(*          per element, other texts are one opaque token per element.     *)
(*          Concatenation is \o.                                           *)
(*   None   the reserved one-token text None (NoneD where a dict or None   *)
(*          is expected, NoneCred where credentials or None are expected). *)
(*   dict   the sequence of its <<key, value>> items in insertion order,   *)
(*          keys pairwise distinct.                                        *)
(* HMAC-SHA256, base64 and the wallet's ECDSA signature are uninterpreted: *)
(* they are modelled as injective term constructors.                       *)
(***************************************************************************)
EXTENDS Integers, Sequences, FiniteSets, TLC

\* ---------------------------------------------------------------- bounds
MaxClock == 1
MaxSigLen == 3
MaxParams == 3
DigestBits == 8

\* ---------------------------------------------------------------- values
None == <<"<None>">>
NoneD == << <<None>> >>
NoneCred == [key |-> None, secret |-> None, passphrase |-> None]

\* bool(x) of a str-or-None value: None and '' are falsy.
Truthy(x) == x # None /\ x # << >>

\* Python's `a or b`.
PyOr(a, b) == IF Truthy(a) THEN a ELSE b

\* The characters the model spells out, in code point order.
ASCII ==
    << "&", "0", "1", "2", "3", "4", "5", "6", "7", "8", "9", "=", "?",
       "A", "B", "C", "E", "G", "K", "L", "M", "O", "P", "S", "T", "Y",
       "a", "b", "c", "d", "e", "f", "g", "h", "i", "k", "l", "m", "n", "o",
       "p", "r", "s", "t", "u", "x", "y" >>

AsciiIndex ==
    [c \in {ASCII[i] : i \in 1..Len(ASCII)} |-> CHOOSE i \in 1..Len(ASCII) : ASCII[i] = c]

\* ord(c)
Ord(c) == AsciiIndex[c]

\* a[i..] < b[i..] where a and b agree before position i.
RECURSIVE StrLessFrom(_, _, _)
StrLessFrom(a, b, i) ==
    IF i > Len(b) THEN FALSE
    ELSE IF i > Len(a) THEN TRUE
    ELSE IF a[i] = b[i] THEN StrLessFrom(a, b, i + 1)
    ELSE Ord(a[i]) < Ord(b[i])

\* str.__lt__: lexicographic by code point, a proper prefix is smaller.
StrLess(a, b) == StrLessFrom(a, b, 1)

\* str.upper() on the letters of the HTTP verbs.
UpperChar(c) ==
    CASE c = "g" -> "G" [] c = "e" -> "E" [] c = "t" -> "T"
      [] c = "p" -> "P" [] c = "o" -> "O" [] c = "s" -> "S"
      [] OTHER -> c

\* A mutant of Upper: the verb is signed as it was passed.
UpperOmitted(s) == s

Upper(s) == [i \in 1..Len(s) |-> UpperChar(s[i])]

Digits == <<"0", "1", "2", "3", "4", "5", "6", "7", "8", "9">>

\* str(n) of a non-negative integer.
RECURSIVE Str(_)
Str(n) == IF n < 10 THEN <<Digits[n + 1]>> ELSE Str(n \div 10) \o <<Digits[(n % 10) + 1]>>

\* ---------------------------------------------------------------- sign
\* Insertion of one item into a list sorted by key, after the items whose
\* key is not greater (sorted() is stable).
RECURSIVE InsertItem(_, _)
InsertItem(sortedItems, x) ==
    IF sortedItems = << >> THEN <<x>>
    ELSE IF StrLess(x[1], Head(sortedItems)[1]) THEN <<x>> \o sortedItems
    ELSE <<Head(sortedItems)>> \o InsertItem(Tail(sortedItems), x)

RECURSIVE SortedFrom(_, _)
SortedFrom(acc, items) ==
    IF items = << >> THEN acc
    ELSE SortedFrom(InsertItem(acc, Head(items)), Tail(items))

\* A mutant of Sorted: the items are left in insertion order.
SortedUnsorted(items) == items

\* sorted(data.items(), key=lambda x: x[0], reverse=False)
Sorted(items) == SortedFrom(<< >>, items)

\* '{key}={value}'.format(key=x[0], value=x[1])
FormatItem(x) == x[1] \o <<"=">> \o x[2]

RECURSIVE Join(_, _)
Join(sep, parts) ==
    IF parts = << >> THEN << >>
    ELSE IF Len(parts) = 1 THEN Head(parts)
    ELSE Head(parts) \o sep \o Join(sep, Tail(parts))

NotNone(x) == x[2] # None

\* dataString of sign: the canonical query string.
DataString(data) ==
    LET kept == SelectSeq(Sorted(data), NotNone)
    IN  Join(<<"&">>, [i \in 1..Len(kept) |-> FormatItem(kept[i])])

\* base64.standard_b64encode, uninterpreted.
B64(s) == <<"b64(">> \o s \o <<")">>

\* hmac.new(key, msg, sha256).digest(), uninterpreted.
Hmac(key, msg) == <<"hmac(">> \o key \o <<",">> \o msg \o <<")">>

Return(v) == [outcome |-> "return", error |-> << >>, value |-> v]
Raise(e) == [outcome |-> "raise", error |-> <<e>>, value |-> << >>]

\* HttpPrivate.sign with self.api_key_credentials = creds.
sign(creds, request_path, method, iso_timestamp, data) ==
    LET message_string == iso_timestamp \o method \o request_path \o DataString(data)
    IN  IF creds = NoneCred THEN Raise("TypeError")
        ELSE IF creds.secret = None THEN Raise("AttributeError")
        ELSE Return(B64(Hmac(B64(creds.secret), message_string)))

\* ---------------------------------------------------------------- state
VARIABLES
    api_key_credentials,            \* self.api_key_credentials
    stark_public_key,               \* self.stark_public_key
    stark_public_key_y_coordinate,  \* self.stark_public_key_y_coordinate
    user,                           \* the attribute `user` of the client object
    account,                        \* the attribute `account` of the client object
    clock,                          \* the time generate_now() reads
    last,                           \* the last call: arguments, effects, outcome
    probe,                          \* the wallet signature whose derivations are compared
    keyLog,                         \* the first derivation from probe: its result, the state it ran in
    signIn,                         \* inputs of the sign evaluation (SpecSign)
    signOut                         \* its results

vars == <<api_key_credentials, stark_public_key, stark_public_key_y_coordinate,
          user, account, clock, last, probe, keyLog, signIn, signOut>>

\* The attribute still resolves to the method of the class.
Method == <<"<bound method>">>

endpoint == <<"https://host">>
default_address == <<"0xA">>
URL_SUFFIX == <<"/api">>

FullCred == [key |-> <<"K">>, secret |-> <<"S">>, passphrase |-> <<"P">>]
NoSecretCred == [key |-> <<"K">>, secret |-> None, passphrase |-> <<"P">>]

\* Responses of the transport: the 'data' entry is absent, null or an object.
NoResponse == [data |-> "none", user |-> None, account |-> None]
Responses ==
    { [data |-> "absent", user |-> None, account |-> None],
      [data |-> "null", user |-> None, account |-> None],
      [data |-> "object", user |-> <<"user-1">>, account |-> <<"account-1">>] }

\* Outcomes of self._submit_request: a response, or an error of the transport.
TransportOutcomes ==
    {[kind |-> "response", resp |-> r] : r \in Responses}
        \cup {[kind |-> "raise", resp |-> NoResponse]}

\* The outcomes told apart by a caller that does not read the response.
PlainOutcomes == {tr \in TransportOutcomes : tr.resp.data \in {"none", "object"}}

NoKeys == [public_key |-> None, public_key_y_coordinate |-> None, private_key |-> None]

NoEff ==
    [ outcome |-> "return", error |-> << >>, response |-> NoResponse,
      submitted |-> << >>, value |-> << >>, keys |-> NoKeys,
      walletCalls |-> 0, walletSig |-> None, user |-> user, account |-> account ]

\* The arguments of a call that the properties read.
NoArgs == [starkKey |-> None, stark_public_key_y_coordinate |-> None]

\* ---------------------------------------------------------------- _private_request
\* str(generate_now())
generate_now == Str(clock)

\* The headers dict built when credentials are configured.
SignedHeaders(signature, now_iso) ==
    << <<<<"APEX-SIGNATURE">>, signature>>,
       <<<<"APEX-API-KEY">>, api_key_credentials.key>>,
       <<<<"APEX-TIMESTAMP">>, now_iso>>,
       <<<<"APEX-PASSPHRASE">>, api_key_credentials.passphrase>> >>

\* A mutant of CredentialsConfigured: signing is attempted always.
CredentialsAlways == TRUE

\* self.api_key_credentials is not None
CredentialsConfigured == api_key_credentials # NoneCred

\* HttpPrivate._private_request; tr is what self._submit_request does.
private_request(method, path, data, headers, tr) ==
    LET now_iso == generate_now
        s == sign(api_key_credentials, path, Upper(method), now_iso, data)
        hdrs == IF CredentialsConfigured THEN SignedHeaders(s.value, now_iso) ELSE headers
        req == [method |-> method, path |-> endpoint \o path, headers |-> hdrs, query |-> data]
    IN  IF CredentialsConfigured /\ s.outcome = "raise"
        THEN [NoEff EXCEPT !.outcome = "raise", !.error = s.error]
        ELSE IF tr.kind = "raise"
        THEN [NoEff EXCEPT !.outcome = "raise", !.error = <<"TransportError">>,
                           !.submitted = <<req>>]
        ELSE [NoEff EXCEPT !.response = tr.resp, !.submitted = <<req>>]

\* request_helpers.generate_query_path
generate_query_path(url, params) ==
    LET kept == SelectSeq(params, NotNone)
        paramsString == Join(<<"&">>, [i \in 1..Len(kept) |-> FormatItem(kept[i])])
    IN  IF paramsString = << >> THEN url ELSE url \o <<"?">> \o paramsString

\* HttpPrivate._get: data is the default argument {}.
get(endpoint_path, params, tr) ==
    private_request(<<"G", "E", "T">>, generate_query_path(endpoint_path, params),
                    << >>, NoneD, tr)

\* HttpPrivate._post
post(endpoint_path, data, headers, tr) ==
    private_request(<<"P", "O", "S", "T">>, endpoint_path, data, headers, tr)

\* ---------------------------------------------------------------- key derivation
HexDigits == <<"0", "1", "2", "3", "4", "5", "6", "7", "8", "9",
               "a", "b", "c", "d", "e", "f">>

IsHexDigit(c) == \E i \in 1..Len(HexDigits) : HexDigits[i] = c

HexVal(c) == (CHOOSE i \in 1..Len(HexDigits) : HexDigits[i] = c) - 1

\* The digits int(s, 16) reads: s without an optional 0x prefix.
HexBody(s) ==
    IF Len(s) >= 2 /\ s[1] = "0" /\ s[2] = "x" THEN SubSeq(s, 3, Len(s)) ELSE s

\* A mutant of ParsesBase16: a text with no digit at all is read as zero and
\* a character that is no digit is skipped.
ParsesBase16Lenient(s) == TRUE

\* Whether int(s, 16) returns; it raises ValueError otherwise.
ParsesBase16(s) ==
    /\ HexBody(s) # << >>
    /\ \A i \in 1..Len(HexBody(s)) : IsHexDigit(HexBody(s)[i])

RECURSIVE IntOfDigits(_, _)
IntOfDigits(acc, ds) ==
    IF ds = << >> THEN acc
    ELSE IntOfDigits(acc * 16 + (IF IsHexDigit(Head(ds)) THEN HexVal(Head(ds)) ELSE 0),
                     Tail(ds))

\* int(s, 16) where it returns.
IntBase16(s) == IntOfDigits(0, HexBody(s))

RECURSIVE Pow2(_)
Pow2(k) == IF k = 0 THEN 1 ELSE 2 * Pow2(k - 1)

\* Web3.solidityKeccak(['uint256'], [n]) read as an integer: a fixed
\* function onto the digests of DigestBits bits (the library's hash is not
\* computed; a fixed mixing function stands for it).
Keccak256(n) ==
    LET m == n % Pow2(DigestBits)
    IN  (m * m * 7 + m * 13 + 77) % Pow2(DigestBits)

\* A mutant of private_key_int_of: the number of earlier derivations is
\* mixed into the hash.
private_key_int_salted(signature_int) == Keccak256(signature_int + Len(keyLog)) \div 32

\* int(hashed_signature.hex(), 16) >> 5
private_key_int_of(signature_int) == Keccak256(signature_int) \div 32

RECURSIVE HexDigitsOf(_)
HexDigitsOf(n) ==
    IF n < 16 THEN <<HexDigits[n + 1]>>
    ELSE HexDigitsOf(n \div 16) \o <<HexDigits[(n % 16) + 1]>>

\* hex(n) of a non-negative integer.
Hex(n) == <<"0", "x">> \o HexDigitsOf(n)

\* The curve of the stark key: y^2 = x^3 + ALPHA * x + BETA over the
\* field of FIELD_PRIME elements, with generator EC_GEN of order EC_ORDER.
FIELD_PRIME == 23
ALPHA == 1
EC_ORDER == 28
EC_GEN == [inf |-> FALSE, x |-> 0, y |-> 1]
EC_INF == [inf |-> TRUE, x |-> 0, y |-> 0]

ModP(a) == ((a % FIELD_PRIME) + FIELD_PRIME) % FIELD_PRIME

InvP(a) == CHOOSE z \in 1..(FIELD_PRIME - 1) : ModP(a * z) = 1

ec_add(p, q) ==
    IF p.inf THEN q
    ELSE IF q.inf THEN p
    ELSE IF p.x = q.x /\ ModP(p.y + q.y) = 0 THEN EC_INF
    ELSE LET m == IF p.x = q.x
                  THEN ModP((3 * p.x * p.x + ALPHA) * InvP(ModP(2 * p.y)))
                  ELSE ModP((q.y - p.y) * InvP(ModP(q.x - p.x)))
             x3 == ModP(m * m - p.x - q.x)
         IN  [inf |-> FALSE, x |-> x3, y |-> ModP(m * (p.x - x3) - p.y)]

RECURSIVE ec_mult(_, _)
ec_mult(k, p) == IF k = 0 THEN EC_INF ELSE ec_add(p, ec_mult(k - 1, p))

\* apexpro.private_key_to_public_key_pair_hex
private_key_to_public_key_pair_hex(private_key_hex) ==
    LET k == IntBase16(private_key_hex)
        pt == ec_mult(k, EC_GEN)
    IN  IF ~(0 < k /\ k < EC_ORDER) THEN Raise("AssertionError")
        ELSE Return(<<Hex(pt.x), Hex(pt.y)>>)

\* Wallet signatures: every text over SigChars of at most MaxSigLen characters.
SigChars == {"0", "x", "f", "g"}

RECURSIVE TextsOfLen(_)
TextsOfLen(n) ==
    IF n = 0 THEN {<< >>}
    ELSE {<<c>> \o t : c \in SigChars, t \in TextsOfLen(n - 1)}

WalletSignatures == UNION {TextsOfLen(n) : n \in 0..MaxSigLen}

\* What the wallet does when asked for a signature: it returns one, or fails.
WalletOutcomes(sigs) ==
    {[ok |-> TRUE, sig |-> sg] : sg \in sigs} \cup {[ok |-> FALSE, sig |-> None]}

\* A mutant of wallet_sign: a failure of the wallet is swallowed and the
\* signature is None.
wallet_sign_swallow(w) == Return(w.sig)

\* self.signer.sign(...) and self.starkeySigner.sign_message(...)
wallet_sign(w) == IF w.ok THEN Return(w.sig) ELSE Raise("SigningError")

\* HttpPrivate.derive_stark_key; w is what the wallet does.
derive_stark_key(ethereum_address, w) ==
    LET sg == wallet_sign(w)
        signature == sg.value
        private_key_hex == Hex(private_key_int_of(IntBase16(signature)))
        pub == private_key_to_public_key_pair_hex(private_key_hex)
        called == [NoEff EXCEPT !.walletCalls = 1, !.walletSig = w.sig]
    IN  IF sg.outcome = "raise"
        THEN [called EXCEPT !.outcome = "raise", !.error = sg.error]
        ELSE IF ~ParsesBase16(signature)
        THEN [called EXCEPT !.outcome = "raise", !.error = <<"ValueError">>]
        ELSE IF pub.outcome = "raise"
        THEN [called EXCEPT !.outcome = "raise", !.error = pub.error]
        ELSE [called EXCEPT !.keys = [public_key |-> pub.value[1],
                                      public_key_y_coordinate |-> pub.value[2],
                                      private_key |-> private_key_hex]]

\* ---------------------------------------------------------------- register_user
\* A mutant of KeyMissing: the check is left out.
KeyMissingUnchecked(k) == FALSE

\* `stark_key is None`, `stark_key_y is None`
KeyMissing(k) == k = None

\* A mutant of HasData: the state is updated from every response.
HasDataAlways(resp) == TRUE

\* onboardingRes.get('data') is not None
HasData(resp) == resp.data = "object"

\* The keys of the onboarding data, spelled out.
K_starkKey ==
    <<"s", "t", "a", "r", "k", "K", "e", "y">>
K_starkKeyYCoordinate ==
    <<"s", "t", "a", "r", "k", "K", "e", "y", "Y", "C", "o", "o", "r", "d", "i", "n", "a", "t", "e">>
K_referredByAffiliateLink ==
    <<"r", "e", "f", "e", "r", "r", "e", "d", "B", "y", "A", "f", "f", "i", "l", "i", "a", "t", "e", "L", "i", "n", "k">>
K_ethereumAddress ==
    <<"e", "t", "h", "e", "r", "e", "u", "m", "A", "d", "d", "r", "e", "s", "s">>
K_country ==
    <<"c", "o", "u", "n", "t", "r", "y">>
K_category ==
    <<"c", "a", "t", "e", "g", "o", "r", "y">>
K_isLpAccount ==
    <<"i", "s", "L", "p", "A", "c", "c", "o", "u", "n", "t">>
K_ethMulAddress ==
    <<"e", "t", "h", "M", "u", "l", "A", "d", "d", "r", "e", "s", "s">>

\* The data of the onboarding request, in the order the dict literal gives.
OnboardingData(stark_key, stark_key_y, eth_address) ==
    << <<K_starkKey, stark_key>>,
       <<K_starkKeyYCoordinate, stark_key_y>>,
       <<K_referredByAffiliateLink, None>>,
       <<K_ethereumAddress, eth_address>>,
       <<K_country, None>>,
       <<K_category, <<"CATEGORY_API">> >>,
       <<K_isLpAccount, None>>,
       <<K_ethMulAddress, None>> >>

\* The headers register_user passes to _private_request.
OnboardingHeaders(signature, eth_address) ==
    << <<<<"APEX-SIGNATURE">>, signature>>,
       <<<<"APEX-ETHEREUM-ADDRESS">>, eth_address>> >>

\* HttpPrivate.register_user; w is what the wallet does, tr what
\* the transport does. The arguments left at
\* their default None are referred_by_affiliate_link, country, isLpAccount
\* and eth_mul_address.
register_user(nonce, starkKey, stark_public_key_y_coordinate_arg, ethereum_address, w, tr) ==
    LET stark_key == PyOr(starkKey, stark_public_key)
        stark_key_y == PyOr(stark_public_key_y_coordinate_arg, stark_public_key_y_coordinate)
        eth_address == PyOr(ethereum_address, default_address)
        sg == wallet_sign(w)
        onboardingRes ==
            private_request(<<"P", "O", "S", "T">>, URL_SUFFIX \o <<"/v1/onboarding">>,
                            OnboardingData(stark_key, stark_key_y, eth_address),
                            OnboardingHeaders(sg.value, eth_address), tr)
        sent == [onboardingRes EXCEPT !.walletCalls = 1, !.walletSig = w.sig]
    IN  IF KeyMissing(stark_key) \/ KeyMissing(stark_key_y)
        THEN [NoEff EXCEPT !.outcome = "raise", !.error = <<"ValueError">>]
        ELSE IF sg.outcome = "raise"
        THEN [NoEff EXCEPT !.outcome = "raise", !.error = sg.error,
                           !.walletCalls = 1, !.walletSig = w.sig]
        ELSE IF onboardingRes.outcome = "raise" THEN sent
        ELSE IF HasData(onboardingRes.response)
        THEN [sent EXCEPT !.user = onboardingRes.response.user,
                          !.account = onboardingRes.response.account]
        ELSE sent

\* ---------------------------------------------------------------- user, account
\* userRes['data'] / accountRes['data'] where the entry is present.
DataOf(resp, field) == IF resp.data = "null" THEN None ELSE resp[field]

\* Whether client.user(...) / client.account(...) reaches the method of the
\* class: an attribute assigned on the object is found first.
Callable(attr) == attr = Method

\* HttpPrivate.user, called as client.user(**kwargs).
user_call(kwargs, tr) ==
    LET userRes == get(URL_SUFFIX \o <<"/v1/user">>, kwargs, tr)
    IN  IF ~Callable(user)
        THEN [NoEff EXCEPT !.outcome = "raise", !.error = <<"TypeError">>]
        ELSE IF userRes.outcome = "raise" THEN userRes
        ELSE IF userRes.response.data = "absent"
        THEN [userRes EXCEPT !.outcome = "raise", !.error = <<"KeyError">>]
        ELSE [userRes EXCEPT !.user = DataOf(userRes.response, "user")]

\* HttpPrivate.account, called as client.account(**kwargs).
account_call(kwargs, tr) ==
    LET accountRes == get(URL_SUFFIX \o <<"/v1/account">>, kwargs, tr)
    IN  IF ~Callable(account)
        THEN [NoEff EXCEPT !.outcome = "raise", !.error = <<"TypeError">>]
        ELSE IF accountRes.outcome = "raise" THEN accountRes
        ELSE IF accountRes.response.data = "absent"
        THEN [accountRes EXCEPT !.outcome = "raise", !.error = <<"KeyError">>]
        ELSE [accountRes EXCEPT !.account = DataOf(accountRes.response, "account")]

\* HttpPrivate.modify_user
modify_user(kwargs, tr) ==
    post(URL_SUFFIX \o <<"/v1/modify-user">>, kwargs, NoneD, tr)

\* ---------------------------------------------------------------- inputs
\* The keyword arguments the endpoint methods are called with.
Kwargs == {<< >>,
           << <<<<"b">>, <<"7">>>>, <<<<"a", "b">>, None>>, <<<<"a">>, <<"1">>>> >>}

Keys == {<<"a">>, <<"a", "b">>, <<"b">>}
Values == {None, <<"1">>, <<"7">>}

RECURSIVE DictsOfLen(_)
DictsOfLen(n) ==
    IF n = 0 THEN {<< >>}
    ELSE {Append(d, <<k, v>>) : d \in DictsOfLen(n - 1), k \in Keys, v \in Values}

DistinctKeys(d) == \A i, j \in 1..Len(d) : i # j => d[i][1] # d[j][1]

\* Every dict over Keys and Values of at most MaxParams items.
Dicts == {d \in UNION {DictsOfLen(n) : n \in 0..MaxParams} : DistinctKeys(d)}

Methods == {<<"G", "E", "T">>, <<"p", "o", "s", "t">>}
Paths == {<<"/api/v1/fills">>}
StarkKeyArgs == {None, << >>, <<"0xkey">>}
StarkKeyYArgs == {None, <<"0xkeyY">>}
AddressArgs == {None, <<"0xB">>}
OnboardingWallet == WalletOutcomes({<<"0xonboardingsig">>})

\* ---------------------------------------------------------------- actions
\* The state after a call op(args) with effects effects.
Apply(op, args, effects) ==
    \E eff \in {effects} :
        /\ user' = eff.user
        /\ account' = eff.account
        /\ last' = [ op |-> op, args |-> args,
                     unchanged |-> (eff.user = user /\ eff.account = account),
                     outcome |-> eff.outcome, error |-> eff.error,
                     response |-> eff.response, submitted |-> eff.submitted,
                     value |-> eff.value, keys |-> eff.keys,
                     walletCalls |-> eff.walletCalls, walletSig |-> eff.walletSig ]
        /\ UNCHANGED <<api_key_credentials, stark_public_key,
                       stark_public_key_y_coordinate, clock, probe, signIn, signOut>>

\* Time passes between calls.
Tick ==
    /\ clock < MaxClock
    /\ clock' = clock + 1
    /\ UNCHANGED <<api_key_credentials, stark_public_key, stark_public_key_y_coordinate,
                   user, account, last, probe, keyLog, signIn, signOut>>

\* An input that a call does not read is not enumerated: it is passed as
\* Unread.
UnreadTransport == [kind |-> "raise", resp |-> NoResponse]
UnreadWallet == [ok |-> FALSE, sig |-> None]

Sign ==
    \E m \in Methods, p \in Paths, d \in Kwargs :
        LET r == sign(api_key_credentials, p, Upper(m), generate_now, d)
        IN  /\ Apply("sign", NoArgs,
                     [NoEff EXCEPT !.outcome = r.outcome, !.error = r.error,
                                   !.value = r.value])
            /\ UNCHANGED keyLog

PrivateRequest ==
    \E m \in Methods, p \in Paths, d \in Kwargs, tr \in PlainOutcomes :
        /\ Apply("_private_request", NoArgs, private_request(m, p, d, NoneD, tr))
        /\ UNCHANGED keyLog

ModifyUser ==
    \E d \in Kwargs, tr \in PlainOutcomes :
        /\ Apply("modify_user", NoArgs, modify_user(d, tr))
        /\ UNCHANGED keyLog

RegisterUser ==
    \E k \in StarkKeyArgs, y \in StarkKeyYArgs :
        LET args == [starkKey |-> k, stark_public_key_y_coordinate |-> y]
            complete == /\ ~KeyMissing(PyOr(k, stark_public_key))
                        /\ ~KeyMissing(PyOr(y, stark_public_key_y_coordinate))
        IN  /\ UNCHANGED keyLog
            /\ \/ /\ ~complete
                  /\ Apply("register_user", args,
                           register_user(<<"nonce-1">>, k, y, None, UnreadWallet,
                                         UnreadTransport))
               \/ /\ complete
                  /\ \E a \in AddressArgs :
                        Apply("register_user", args,
                              register_user(<<"nonce-1">>, k, y, a, UnreadWallet,
                                            UnreadTransport))
               \/ /\ complete
                  /\ \E a \in AddressArgs, w \in OnboardingWallet, tr \in TransportOutcomes :
                        /\ w.ok
                        /\ Apply("register_user", args,
                                 register_user(<<"nonce-1">>, k, y, a, w, tr))

User ==
    /\ UNCHANGED keyLog
    /\ \/ /\ ~Callable(user)
          /\ Apply("user", NoArgs, user_call(<< >>, UnreadTransport))
       \/ /\ Callable(user)
          /\ \E d \in Kwargs, tr \in TransportOutcomes :
                Apply("user", NoArgs, user_call(d, tr))

Account ==
    /\ UNCHANGED keyLog
    /\ \/ /\ ~Callable(account)
          /\ Apply("account", NoArgs, account_call(<< >>, UnreadTransport))
       \/ /\ Callable(account)
          /\ \E d \in Kwargs, tr \in TransportOutcomes :
                Apply("account", NoArgs, account_call(d, tr))

\* derive_stark_key where the wallet returns one of sigs or fails; the
\* first derivation from probe is kept in keyLog.
DeriveStarkKey(sigs) ==
    \E a \in AddressArgs, w \in WalletOutcomes(sigs) :
        LET eff == derive_stark_key(a, w)
        IN  /\ Apply("derive_stark_key", NoArgs, eff)
            /\ keyLog' = IF keyLog = << >> /\ w.ok /\ w.sig = probe
                         THEN <<[outcome |-> eff.outcome, error |-> eff.error,
                                 keys |-> eff.keys, user |-> user, clock |-> clock]>>
                         ELSE keyLog

NoCall ==
    [ op |-> "none", args |-> NoArgs, unchanged |-> TRUE,
      outcome |-> "return", error |-> << >>, response |-> NoResponse,
      submitted |-> << >>, value |-> << >>, keys |-> NoKeys,
      walletCalls |-> 0, walletSig |-> None ]

NoSign == [creds |-> NoneCred, method |-> << >>, p |-> << >>, q |-> << >>]

\* The client after construction: credentials and stark keys as the caller
\* configured them; user and account still name the methods of the class.
InitClient ==
    /\ api_key_credentials \in {NoneCred, FullCred, NoSecretCred}
    /\ stark_public_key \in {None, <<"0xstored">>}
    /\ stark_public_key_y_coordinate \in {None, <<"0xstoredY">>}
    /\ stark_public_key = None => stark_public_key_y_coordinate = None
    /\ user = Method
    /\ account = Method
    /\ clock = 0
    /\ last = NoCall
    /\ keyLog = << >>
    /\ signIn = NoSign
    /\ signOut = << >>

Init == InitClient /\ probe = << >>

Next ==
    \/ Tick
    \/ Sign
    \/ PrivateRequest
    \/ ModifyUser
    \/ RegisterUser
    \/ User
    \/ Account
    \/ DeriveStarkKey({<<"0", "x", "f">>, <<"g">>})

Spec == Init /\ [][Next]_vars

\* ---------------------------------------------------------------- sign alone
\* sign applied to two params dicts p and q under the same credentials,
\* timestamp, method and path.
SignOf(creds, method, data) ==
    [ canonical |-> DataString(data),
      signature |-> sign(creds, <<"/api/v1/fills">>, method, <<"2024">>, data) ]

SignBoth ==
    /\ signOut = << >>
    /\ signOut' = << SignOf(signIn.creds, signIn.method, signIn.p),
                     SignOf(signIn.creds, signIn.method, signIn.q) >>
    /\ UNCHANGED <<api_key_credentials, stark_public_key, stark_public_key_y_coordinate,
                   user, account, clock, last, probe, keyLog, signIn>>

InitSign ==
    /\ api_key_credentials = FullCred
    /\ stark_public_key = None
    /\ stark_public_key_y_coordinate = None
    /\ user = Method
    /\ account = Method
    /\ clock = 0
    /\ last = NoCall
    /\ probe = << >>
    /\ keyLog = << >>
    /\ signIn \in [creds : {FullCred}, method : {<<"G", "E", "T">>}, p : Dicts, q : Dicts]
    /\ signOut = << >>

SpecSign == InitSign /\ [][SignBoth]_vars

\* ---------------------------------------------------------------- derivation alone
\* derive_stark_key from every wallet signature, between other calls that
\* change the state of the client.
InitDerive ==
    /\ InitClient
    /\ api_key_credentials # NoSecretCred
    /\ (stark_public_key = None) = (stark_public_key_y_coordinate = None)
    /\ probe \in WalletSignatures

NextDerive ==
    \/ Tick
    \/ User
    \/ DeriveStarkKey({probe})

SpecDerive == InitDerive /\ [][NextDerive]_vars

\* ---------------------------------------------------------------- properties
\* The request the last call submitted to the transport, if it submitted one.
Submitted == last.submitted # << >>
Req == last.submitted[1]

\* C1: every onboarding request register_user hands to the transport
\* carries the two onboarding headers, the wallet signature and the
\* Ethereum address of the request, whether or not API-key credentials are
\* configured.
C1_OnboardingHeaders ==
    (last.op = "register_user" /\ Submitted) =>
        Req.headers = OnboardingHeaders(last.walletSig, Req.query[4][2])

\* C2: register_user with the stark public key or its y-coordinate neither
\* passed nor stored raises before anything is submitted and leaves user and
\* account as they were; a submitted onboarding request carries a starkKey
\* and a starkKeyYCoordinate that are not None.
C2_CompleteKeyPair ==
    last.op = "register_user" =>
        /\ ( \/ (last.args.starkKey = None /\ stark_public_key = None)
             \/ ( /\ last.args.stark_public_key_y_coordinate = None
                  /\ stark_public_key_y_coordinate = None ) )
           => (last.outcome = "raise" /\ ~Submitted /\ last.unchanged)
        /\ Submitted =>
             /\ Req.query[1] = <<K_starkKey, Req.query[1][2]>>
             /\ Req.query[1][2] # None
             /\ Req.query[2] = <<K_starkKeyYCoordinate, Req.query[2][2]>>
             /\ Req.query[2][2] # None

C2_Witness ==
    /\ last.op = "register_user"
    /\ last.args.starkKey = <<"0xkey">>
    /\ last.args.stark_public_key_y_coordinate = None
    /\ stark_public_key_y_coordinate = None
    /\ last.outcome = "raise"

\* The HTTP verb in upper case.
VerbOf(method) ==
    IF method \in {<<"G", "E", "T">>, <<"g", "e", "t">>} THEN <<"G", "E", "T">>
    ELSE <<"P", "O", "S", "T">>

\* C3: with credentials configured, a submitted request carries exactly the
\* headers signature, API key, timestamp and passphrase, and the signature
\* is sign(path, upper-cased method, the timestamp of the header, data) of
\* the path and data submitted.
C3_SignedRequest ==
    (api_key_credentials # NoneCred /\ Submitted) =>
        LET h == Req.headers
            path == SubSeq(Req.path, Len(endpoint) + 1, Len(Req.path))
            sg == sign(api_key_credentials, path, VerbOf(Req.method), h[3][2], Req.query)
        IN  /\ Len(h) = 4
            /\ h[1][1] = <<"APEX-SIGNATURE">>
            /\ h[2] = <<<<"APEX-API-KEY">>, api_key_credentials.key>>
            /\ h[3][1] = <<"APEX-TIMESTAMP">>
            /\ h[4] = <<<<"APEX-PASSPHRASE">>, api_key_credentials.passphrase>>
            /\ SubSeq(Req.path, 1, Len(endpoint)) = endpoint
            /\ sg.outcome = "return"
            /\ h[1][2] = sg.value

C3_Witness ==
    /\ api_key_credentials = FullCred
    /\ last.op = "_private_request"
    /\ Submitted
    /\ Req.method = <<"p", "o", "s", "t">>
    /\ Req.query # << >>
    /\ Req.headers[3][2] = <<"1">>

PrivateOps == {"sign", "_private_request", "modify_user", "user", "account", "register_user"}

NonNull(d) == {d[i] : i \in {j \in 1..Len(d) : d[j][2] # None}}

\* The entries S joined in ascending order of their keys.
RECURSIVE CanonicalOf(_)
CanonicalOf(S) ==
    IF S = {} THEN << >>
    ELSE LET least == CHOOSE x \in S : \A z \in S \ {x} : StrLess(x[1], z[1])
             entry == least[1] \o <<"=">> \o least[2]
         IN  IF S = {least} THEN entry
             ELSE entry \o <<"&">> \o CanonicalOf(S \ {least})

\* C5: under the same secret, timestamp, method and path, two params dicts
\* with the same entries of value not None, in any insertion order and with
\* any entries of value None, give the same canonical string, which is their
\* key=value entries in ascending key order joined by &, and the same
\* signature.
C5_OrderAndNoneIndependent ==
    signOut # << >> =>
        /\ signOut[1].canonical = CanonicalOf(NonNull(signIn.p))
        /\ signOut[1].signature.outcome = "return"
        /\ NonNull(signIn.p) = NonNull(signIn.q) => signOut[1] = signOut[2]

C5_Witness ==
    /\ signOut # << >>
    /\ signIn.p = << <<<<"b">>, <<"7">>>>, <<<<"a">>, <<"1">>>> >>
    /\ signIn.q = << <<<<"a", "b">>, None>>, <<<<"a">>, <<"1">>>>, <<<<"b">>, <<"7">>>> >>
    /\ signOut[1].canonical = <<"a", "=", "1", "&", "b", "=", "7">>
    /\ signOut[2] = signOut[1]

\* The last call asked the wallet for a signature and the wallet failed.
WalletFailed == last.walletCalls > 0 /\ last.walletSig = None

\* C6: a failure of the wallet in register_user or derive_stark_key is
\* raised to the caller after the one call of the wallet, nothing is
\* submitted to the transport and user and account are as they were.
C6_FailClosed ==
    (last.op \in {"register_user", "derive_stark_key"} /\ WalletFailed) =>
        /\ last.outcome = "raise"
        /\ last.error = <<"SigningError">>
        /\ last.walletCalls = 1
        /\ ~Submitted
        /\ last.unchanged
        /\ last.keys = NoKeys

C6_Witness ==
    /\ last.op = "register_user"
    /\ WalletFailed
    /\ last.outcome = "raise"
    /\ api_key_credentials = FullCred

\* Hexadecimal text: an optional 0x, then one digit or more.
HexChars == {"0", "1", "2", "3", "4", "5", "6", "7", "8", "9", "a", "b", "c", "d", "e", "f"}

ValidHex(s) ==
    LET from == IF Len(s) >= 2 /\ SubSeq(s, 1, 2) = <<"0", "x">> THEN 3 ELSE 1
    IN  from <= Len(s) /\ \A i \in from..Len(s) : s[i] \in HexChars

\* The length of a well-formed wallet signature, at the scale of the model.
ExpectedSigLen == MaxSigLen

\* The last call was derive_stark_key and the wallet returned a signature.
Derived == last.op = "derive_stark_key" /\ last.walletSig # None

\* C7 as claimed: derive_stark_key raises, returning no key pair, when the
\* wallet's signature is not valid hexadecimal or not of the expected length.
C7_MalformedRejected ==
    (Derived /\ (~ValidHex(last.walletSig) \/ Len(last.walletSig) # ExpectedSigLen)) =>
        (last.outcome = "raise" /\ last.keys = NoKeys)

\* C7 as amended: derive_stark_key raises ValueError, returning no key pair,
\* exactly when the wallet's signature is not hexadecimal text; the length
\* of the signature is not checked.
C7_NonHexRejected ==
    Derived =>
        /\ ~ValidHex(last.walletSig) =>
             (last.outcome = "raise" /\ last.error = <<"ValueError">> /\ last.keys = NoKeys)
        /\ ValidHex(last.walletSig) => last.error # <<"ValueError">>
        /\ (ValidHex(last.walletSig) /\ last.outcome = "raise") =>
             last.error = <<"AssertionError">>

C7_Witness ==
    /\ Derived
    /\ last.walletSig = <<"0", "x", "g">>
    /\ last.outcome = "raise"
    /\ last.error = <<"ValueError">>

C9_StateFromResponse ==
    (last.op = "register_user" /\ last.response # NoResponse) =>
        /\ last.outcome = "return"
        /\ last.response \in Responses
        /\ last.response.data = "object" =>
             (user = last.response.user /\ account = last.response.account)
        /\ last.response.data # "object" => last.unchanged

C9_Witness ==
    /\ last.op = "register_user"
    /\ last.response.data = "object"
    /\ ~last.unchanged
    /\ user = <<"user-1">>
    /\ account = <<"account-1">>

\* C10: a call of user() or account() issues its GET request.
C10_StillInvocable ==
    last.op \in {"user", "account"} =>
        /\ Len(last.submitted) = 1
        /\ Req.method = <<"G", "E", "T">>
====
